---- MODULE Spec2Model ----
(***************************************************************************)
(* A model of the generation core of interface_gen:                        *)
(*   core/generator.py  TestCaseGenerator (repair, sanitize, rule fix-up,  *)
(*                      the per-case pipeline and the batch loop)          *)
(*   core/rag.py        TestCaseRAG (the similarity store)                 *)
(*   models/test_case.py TestCase (the record the pipeline constructs)     *)
(*                                                                         *)
(* Text is a sequence of symbols.  A symbol is one punctuation character,  *)
(* one whitespace character, or one word (a run of letters, written as a   *)
(* single symbol: the code never looks inside a word except for the first  *)
(* letter after a backslash, see StartsWithEscapeLetter).                  *)
(*                                                                         *)
(* A JSON value, as json.loads returns it, is a tagged record [t, v]:      *)
(*   null  [t |-> "null", v |-> "null"]                                    *)
(*   bool  [t |-> "bool", v |-> "true" or "false"]                         *)
(*   num   [t |-> "num",  v |-> the digit symbol]                          *)
(*   str   [t |-> "str",  v |-> the sequence of its symbols]               *)
(*   arr   [t |-> "arr",  v |-> the sequence of its elements]              *)
(*   obj   [t |-> "obj",  v |-> a function from keys to values]            *)
(* A key is the symbol sequence of the key string.                         *)
(***************************************************************************)
EXTENDS Integers, Sequences, FiniteSets, TLC

\* ------------------------------------------------------------- symbols

DQ == "\""
SQ == "'"
BSL == "\\"
\* The three-backquote markdown fence, one symbol.
FENCE == "<fence>"
NL == "<NL>"
TAB == "<TAB>"

\* What Python's \s, str.strip() and the JSON grammar treat as whitespace.
WS == {" ", NL, TAB}

\* Decoded control characters (the values of \n, \t, \r, \b, \f).
ControlSyms == {NL, TAB, "<CR>", "<BS>", "<FF>"}

Digits == {"0", "1", "5"}

\* The symbols whose first character is one of "bfnrt/": the test
\* `s[i + 1] in 'bfnrt/'` of _sanitize_json_string reads only that character.
StartsWithEscapeLetter ==
    {"b", "f", "n", "r", "t", "/", "name", "rule", "rules", "result", "top",
     "not_in", "not", "type", "functional", "boundary", "true", "false",
     "null", "text"}

\* ---------------------------------------------------------- JSON values

JNull == [t |-> "null", v |-> "null"]
JTrue == [t |-> "bool", v |-> "true"]
JFalse == [t |-> "bool", v |-> "false"]
JNum(d) == [t |-> "num", v |-> d]
JStr(s) == [t |-> "str", v |-> s]
JArr(s) == [t |-> "arr", v |-> s]
JObj(f) == [t |-> "obj", v |-> f]

\* A one-word string and a one-word key.
W(w) == JStr(<<w>>)
K(w) == <<w>>

EmptyObj == JObj(<<>>)

IsObj(x) == x.t = "obj"
IsStr(x) == x.t = "str"
IsArr(x) == x.t = "arr"

\* `key in d` and d[key] of a Python dict.
HasKey(x, k) == k \in DOMAIN x.v
Get(x, k) == x.v[k]
\* d[key] = value
Put(x, k, val) == JObj((k :> val) @@ x.v)

RECURSIVE SameValue(_, _)
\* a == b of two Python values: the same type and the same content.
SameValue(a, b) ==
    /\ a.t = b.t
    /\ CASE a.t = "arr" ->
                /\ Len(a.v) = Len(b.v)
                /\ \A i \in 1..Len(a.v) : SameValue(a.v[i], b.v[i])
          [] a.t = "obj" ->
                /\ DOMAIN a.v = DOMAIN b.v
                /\ \A k \in DOMAIN a.v : SameValue(a.v[k], b.v[k])
          [] OTHER -> a.v = b.v

\* --------------------------------------------------- sequence helpers

Min(S) == CHOOSE x \in S : \A y \in S : x <= y
Max(S) == -Min({-x : x \in S})

\* The first position >= i of s that holds no whitespace (Len(s)+1 if none).
SkipWS(s, i) ==
    IF i > Len(s) THEN i
    ELSE Min({j \in i..(Len(s) + 1) : j > Len(s) \/ s[j] \notin WS})

\* The first position >= i of s that holds c, or 0.
IndexFrom(s, c, i) ==
    LET S == {j \in i..Len(s) : s[j] = c} IN IF S = {} THEN 0 ELSE Min(S)

\* The last position <= i of s that holds c, or 0.
LastIndex(s, c, i) ==
    LET S == {j \in 1..i : s[j] = c} IN IF S = {} THEN 0 ELSE Max(S)

\* The number of consecutive c's that end right before position i of s,
\* counted no further back than position lo.
RunBefore(s, c, i, lo) == i - 1 - Max({j \in lo..(i - 1) : s[j] # c} \cup {lo - 1})

RECURSIVE Flat(_, _, _)
\* The concatenation frag[lo] \o ... \o frag[hi].
Flat(frag, lo, hi) ==
    IF lo > hi THEN <<>>
    ELSE IF lo = hi THEN frag[lo]
    ELSE LET mid == (lo + hi) \div 2 IN Flat(frag, lo, mid) \o Flat(frag, mid + 1, hi)

\* s[a..b], empty when b < a (a Python slice).
Slice(s, a, b) == IF b < a THEN <<>> ELSE SubSeq(s, a, b)

\* A local variable: v is worked out once and named in F.
With(v, F(_)) == F(v)

\* ------------------------------------------------------------ json.loads

\* A failed parse (json.JSONDecodeError).
ParseFail == [ok |-> FALSE, pos |-> 0, val |-> JNull, err |-> "JSONDecodeError"]

\* An integer literal with more digits than int() converts (the interpreter
\* refuses more than 4300 digits), one symbol. The scanner matches it as a
\* number and the conversion raises ValueError, which is no JSONDecodeError.
HugeInt == "<an integer of 5000 digits>"
ParseOverflow == [ok |-> FALSE, pos |-> 0, val |-> JNull, err |-> "ValueError"]

\* A run of n equal characters is written as two symbols, the mark of the
\* character and the count n: a word of n letters, or n opening brackets.
WordRun == "<letters>*"
BracketRun == "<[>*"
RunMarks == {WordRun, BracketRun}
Run(mark, n) == <<mark, ToString(n)>>
\* The lengths of the runs of the model's texts.
RunLengths == 0..2000
RunLength(count) == CHOOSE n \in RunLengths : ToString(n) = count

\* The interpreter's recursion limit (sys.getrecursionlimit() by default).
\* The scanner of json.loads calls itself for every nested array; at this
\* depth CPython up to 3.11 raises RecursionError, which is no
\* JSONDecodeError (later interpreters count these calls against a limit of
\* their own).
RecursionLimit == 1000
ParseDeep == [ok |-> FALSE, pos |-> 0, val |-> JNull, err |-> "RecursionError"]

\* The character a JSON escape \x stands for.
Unescape ==
    (DQ :> DQ) @@ (BSL :> BSL) @@ ("/" :> "/") @@ ("n" :> NL) @@ ("t" :> TAB)
    @@ ("r" :> "<CR>") @@ ("b" :> "<BS>") @@ ("f" :> "<FF>")

\* The body of a string, from position i (after the opening quote) to its
\* closing quote, the first quote that no backslash escapes: an unknown
\* escape or a raw control character is an error.
ParseString(s, i) ==
    LET Escapes(j) == j >= i /\ s[j] = BSL /\ RunBefore(s, BSL, j, i) % 2 = 0
        Escaped(j) == j > i /\ Escapes(j - 1)
        ends == {j \in i..Len(s) : s[j] = DQ /\ ~Escaped(j)}
        end == Min(ends)
        frag == [j \in i..(end - 1) |->
                    IF Escapes(j) THEN <<Unescape[s[j + 1]]>>
                    ELSE IF Escaped(j) THEN <<>>
                    ELSE <<s[j]>>]
    IN  IF ends = {} THEN ParseFail
        ELSE IF \E j \in i..(end - 1) :
                   \/ Escapes(j) /\ s[j + 1] \notin DOMAIN Unescape
                   \/ ~Escaped(j) /\ s[j] \in ControlSyms
             THEN ParseFail
        ELSE [ok |-> TRUE, pos |-> end + 1, val |-> Flat(frag, i, end - 1)]

RECURSIVE ParseValue(_, _)
RECURSIVE ParseMembers(_, _, _)
RECURSIVE ParseElements(_, _, _)

\* The members of an object from position i, where a key must start; acc
\* holds the members read so far (a repeated key keeps its last value).
ParseMembers(s, i, acc) ==
    IF i > Len(s) \/ s[i] # DQ THEN ParseFail
    ELSE LET k == ParseString(s, i + 1) IN
         IF ~k.ok THEN ParseFail
         ELSE LET c == SkipWS(s, k.pos) IN
              IF c > Len(s) \/ s[c] # ":" THEN ParseFail
              ELSE LET x == ParseValue(s, SkipWS(s, c + 1)) IN
                   IF ~x.ok THEN x
                   ELSE LET e == SkipWS(s, x.pos)
                            acc2 == (k.val :> x.val) @@ acc
                        IN  IF e > Len(s) THEN ParseFail
                            ELSE IF s[e] = "}"
                                 THEN [ok |-> TRUE, pos |-> e + 1, val |-> JObj(acc2)]
                            ELSE IF s[e] = ","
                                 THEN ParseMembers(s, SkipWS(s, e + 1), acc2)
                            ELSE ParseFail

\* The elements of an array from position i, where a value must start.
ParseElements(s, i, acc) ==
    LET x == ParseValue(s, i) IN
    IF ~x.ok THEN x
    ELSE LET e == SkipWS(s, x.pos)
             acc2 == Append(acc, x.val)
         IN  IF e > Len(s) THEN ParseFail
             ELSE IF s[e] = "]"
                  THEN [ok |-> TRUE, pos |-> e + 1, val |-> JArr(acc2)]
             ELSE IF s[e] = ","
                  THEN ParseElements(s, SkipWS(s, e + 1), acc2)
             ELSE ParseFail

\* One JSON value starting at position i (whitespace already skipped).
ParseValue(s, i) ==
    IF i > Len(s) THEN ParseFail
    ELSE IF s[i] = DQ
         THEN LET r == ParseString(s, i + 1) IN
              IF r.ok THEN [ok |-> TRUE, pos |-> r.pos, val |-> JStr(r.val)]
              ELSE ParseFail
    ELSE IF s[i] = "{"
         THEN LET j == SkipWS(s, i + 1) IN
              IF j <= Len(s) /\ s[j] = "}"
              THEN [ok |-> TRUE, pos |-> j + 1, val |-> EmptyObj]
              ELSE ParseMembers(s, j, <<>>)
    ELSE IF s[i] = "["
         THEN LET j == SkipWS(s, i + 1) IN
              IF j <= Len(s) /\ s[j] = "]"
              THEN [ok |-> TRUE, pos |-> j + 1, val |-> JArr(<<>>)]
              ELSE ParseElements(s, j, <<>>)
    ELSE IF s[i] \in Digits THEN [ok |-> TRUE, pos |-> i + 1, val |-> JNum(s[i])]
    ELSE IF s[i] = HugeInt THEN ParseOverflow
    ELSE IF s[i] = BracketRun
         THEN \* nested arrays that the model's texts never close
              IF RunLength(s[i + 1]) >= RecursionLimit THEN ParseDeep ELSE ParseFail
    ELSE IF s[i] = "null" THEN [ok |-> TRUE, pos |-> i + 1, val |-> JNull]
    ELSE IF s[i] = "true" THEN [ok |-> TRUE, pos |-> i + 1, val |-> JTrue]
    ELSE IF s[i] = "false" THEN [ok |-> TRUE, pos |-> i + 1, val |-> JFalse]
    ELSE ParseFail

\* json.loads(s): one value with nothing but whitespace around it;
\* ok = FALSE stands for an exception, err for its class.
json_loads(s) ==
    With(ParseValue(s, SkipWS(s, 1)), LAMBDA x :
        IF x.ok /\ SkipWS(s, x.pos) > Len(s)
        THEN [ok |-> TRUE, val |-> x.val, err |-> "none"]
        ELSE [ok |-> FALSE, val |-> JNull,
              err |-> IF x.ok THEN "JSONDecodeError" ELSE x.err])

\* ------------------------------------------------------------ json.dumps

\* The escape json.dumps writes for a character of a string.
EscapeOf ==
    (DQ :> <<BSL, DQ>>) @@ (BSL :> <<BSL, BSL>>) @@ (NL :> <<BSL, "n">>)
    @@ (TAB :> <<BSL, "t">>) @@ ("<CR>" :> <<BSL, "r">>)
    @@ ("<BS>" :> <<BSL, "b">>) @@ ("<FF>" :> <<BSL, "f">>)

EscapeStr(s) ==
    Flat([i \in 1..Len(s) |->
            IF s[i] \in DOMAIN EscapeOf THEN EscapeOf[s[i]] ELSE <<s[i]>>],
         1, Len(s))

\* The keys the model's texts use, in the order they are written out.
KeyOrder ==
    << K("id"), K("name"), K("description"), K("type"), K("input_data"),
       K("expected_output"), K("param"), K("headers"), K("rule"),
       K("api_name"), K("Content-Type"), K("rules"), K("matchType"),
       K("index"), K("dataPath"), K("columns"), K("result"), K("a"),
       K("TestCase"), K("testCase") >>

RECURSIVE OrderRest(_)
OrderRest(S) ==
    IF S = {} THEN <<>>
    ELSE LET k == CHOOSE x \in S : TRUE IN <<k>> \o OrderRest(S \ {k})

\* The keys of an object in the order they are written: a dict is an ordered
\* mapping whose order changes no value and no length; the model writes the
\* keys in KeyOrder, then any others.
OrderKeys(S) ==
    SelectSeq(KeyOrder, LAMBDA k : k \in S)
    \o OrderRest(S \ {KeyOrder[i] : i \in 1..Len(KeyOrder)})

RECURSIVE json_dumps(_)
RECURSIVE DumpElements(_, _)
RECURSIVE DumpMembers(_, _, _)

DumpElements(xs, i) ==
    IF i > Len(xs) THEN <<>>
    ELSE (IF i > 1 THEN <<",", " ">> ELSE <<>>) \o json_dumps(xs[i])
         \o DumpElements(xs, i + 1)

DumpMembers(f, ks, i) ==
    IF i > Len(ks) THEN <<>>
    ELSE (IF i > 1 THEN <<",", " ">> ELSE <<>>)
         \o <<DQ>> \o EscapeStr(ks[i]) \o <<DQ, ":", " ">> \o json_dumps(f[ks[i]])
         \o DumpMembers(f, ks, i + 1)

\* json.dumps(x) with the default separators (", " and ": ").
json_dumps(x) ==
    CASE x.t = "str" -> <<DQ>> \o EscapeStr(x.v) \o <<DQ>>
      [] x.t = "arr" -> <<"[">> \o DumpElements(x.v, 1) \o <<"]">>
      [] x.t = "obj" -> <<"{">> \o DumpMembers(x.v, OrderKeys(DOMAIN x.v), 1) \o <<"}">>
      [] OTHER -> <<x.v>>

\* ------------------------------------------------- _sanitize_json_string

\* s.replace(a + b, new): left to right, not overlapping. In a run of a's
\* (a = b) a match starts at every second position.
Replace2(s, a, b, new) ==
    LET Starts(i) == /\ i >= 1 /\ i < Len(s) /\ s[i] = a /\ s[i + 1] = b
                     /\ (a = b => RunBefore(s, a, i, 1) % 2 = 0)
    IN  Flat([i \in 1..Len(s) |->
                IF Starts(i) THEN new
                ELSE IF Starts(i - 1) THEN <<>>
                ELSE <<s[i]>>],
             1, Len(s))

\* The while loop: a backslash followed by one of "bfnrt/" stays with that
\* character, any other backslash is dropped.
StripBackslashes(s) ==
    Flat([i \in 1..Len(s) |->
            IF s[i] = BSL /\ ~(i + 1 <= Len(s) /\ s[i + 1] \in StartsWithEscapeLetter)
            THEN <<>> ELSE <<s[i]>>],
         1, Len(s))

_sanitize_json_string(s) ==
    LET s1 == Replace2(s, BSL, SQ, <<SQ>>)
        s2 == Replace2(s1, BSL, DQ, <<DQ>>)
        s3 == Replace2(s2, BSL, BSL, <<BSL>>)
    IN  StripBackslashes(s3)

\* ------------------------------------------------------ _fix_json_string

\* re.sub(x1 + x2 + r'\s*', '', s) when x2 is "json" (the opening fence), and
\* re.sub(x + r'\s*' + y, new, s) in general: the matches of such a pattern
\* cannot overlap, so each position is decided on its own.

\* The last position up to j that holds no whitespace, 0 when there is none.
LastNonWS(s, j) == Max({0} \cup {k \in 1..j : s[k] \notin WS})

\* re.sub(r'```json\s*', '', s)
RemoveJsonFences(s) ==
    LET Starts(i) == s[i] = FENCE /\ i + 1 <= Len(s) /\ s[i + 1] = "json"
        Covered(j) == LET p == LastNonWS(s, j)
                      IN  /\ p >= 1
                          /\ \/ p = j /\ Starts(p)
                             \/ s[p] = "json" /\ p > 1 /\ Starts(p - 1)
    IN  Flat([j \in 1..Len(s) |-> IF Covered(j) THEN <<>> ELSE <<s[j]>>], 1, Len(s))

\* re.sub(r'```\s*$', '', s): the first fence followed only by whitespace up
\* to the end is removed with that whitespace.
RemoveFinalFence(s) ==
    LET S == {i \in 1..Len(s) : s[i] = FENCE /\ SkipWS(s, i + 1) > Len(s)}
    IN  IF S = {} THEN s ELSE Slice(s, 1, Min(S) - 1)

\* s.strip()
Strip(s) ==
    LET S == {i \in 1..Len(s) : s[i] \notin WS}
    IN  IF S = {} THEN <<>> ELSE SubSeq(s, Min(S), Max(S))

\* The span from the first "{" to the last "}", when both occur.
ObjectSpan(s) ==
    LET start == IndexFrom(s, "{", 1)
        end == LastIndex(s, "}", Len(s))
    IN  IF start # 0 /\ end # 0 THEN Slice(s, start, end) ELSE s

RECURSIVE FixKeys(_, _)
\* re.sub(r"'([^']*)':", r'"\1":', s), from position i: the next match is
\* the first quote whose next quote is followed by a colon.
FixKeys(s, i) ==
    LET Close(q) == IndexFrom(s, SQ, q + 1)
        S == {q \in i..Len(s) :
                /\ s[q] = SQ /\ Close(q) # 0
                /\ Close(q) + 1 <= Len(s) /\ s[Close(q) + 1] = ":"}
    IN  IF S = {} THEN Slice(s, i, Len(s))
        ELSE LET q == Min(S)
                 j == Close(q)
             IN  Slice(s, i, q - 1) \o <<DQ>> \o Slice(s, q + 1, j - 1)
                 \o <<DQ, ":">> \o FixKeys(s, j + 2)

RECURSIVE FixValues(_, _)
\* re.sub(r":\s*'([^']*)'", r': "\1"', s), from position i.
FixValues(s, i) ==
    LET Open(c) == SkipWS(s, c + 1)
        S == {c \in i..Len(s) :
                /\ s[c] = ":" /\ Open(c) <= Len(s) /\ s[Open(c)] = SQ
                /\ IndexFrom(s, SQ, Open(c) + 1) # 0}
    IN  IF S = {} THEN Slice(s, i, Len(s))
        ELSE LET c == Min(S)
                 j == Open(c)
                 k == IndexFrom(s, SQ, j + 1)
             IN  Slice(s, i, c - 1) \o <<":", " ", DQ>> \o Slice(s, j + 1, k - 1)
                 \o <<DQ>> \o FixValues(s, k + 1)

\* re.sub(x + r'\s*' + y, new, s).
SubAround(s, x, y, new) ==
    LET Starts(i) == /\ s[i] = x /\ SkipWS(s, i + 1) <= Len(s)
                     /\ s[SkipWS(s, i + 1)] = y
        Covered(j) == /\ s[j] \in WS \/ s[j] = y
                      /\ LET p == LastNonWS(s, j - 1)
                         IN  p >= 1 /\ Starts(p)
    IN  Flat([j \in 1..Len(s) |->
                IF Starts(j) THEN new
                ELSE IF Covered(j) THEN <<>>
                ELSE <<s[j]>>],
             1, Len(s))

_fix_json_string(text) ==
    LET s1 == RemoveJsonFences(text)
        s2 == RemoveFinalFence(s1)
        s3 == Strip(s2)
        s4 == ObjectSpan(s3)
        s5 == FixKeys(s4, 1)
        s6 == FixValues(s5, 1)
        s7 == SubAround(s6, ",", "}", <<"}">>)
        s8 == SubAround(s7, ",", "]", <<"]">>)
        s9 == SubAround(s8, "}", "{", <<"}", ",", " ", "{">>)
        s10 == SubAround(s9, "]", "{", <<"]", ",", " ", "{">>)
        s11 == SubAround(s10, "}", DQ, <<"}", ",", " ", DQ>>)
    IN  SubAround(s11, "]", DQ, <<"]", ",", " ", DQ>>)

\* ------------------------------------------------ canonical default values

\* {"matchType": "equal", "dataPath": "result", "columns": {"result": 0}}
DefaultEntry ==
    JObj((K("matchType") :> W("equal")) @@ (K("dataPath") :> W("result"))
         @@ (K("columns") :> JObj(K("result") :> JNum("0"))))

\* {"rules": [DefaultEntry]}
DefaultRule == JObj(K("rules") :> JArr(<<DefaultEntry>>))

\* {"Content-Type": "application/json"}
CanonicalHeaders == JObj(K("Content-Type") :> W("application/json"))

\* ------------------------------------------------ _extract_json_from_text

\* re.search(r'"<word>"\s*:\s*"([^"]*)"', text): the first match's group 1.
FindField(s, word) ==
    LET Colon(i) == SkipWS(s, i + 3)
        Open(i) == SkipWS(s, Colon(i) + 1)
        Close(i) == IndexFrom(s, DQ, Open(i) + 1)
        S == {i \in 1..(Len(s) - 2) :
                /\ s[i] = DQ /\ s[i + 1] = word /\ s[i + 2] = DQ
                /\ Colon(i) <= Len(s) /\ s[Colon(i)] = ":"
                /\ Open(i) <= Len(s) /\ s[Open(i)] = DQ
                /\ Close(i) # 0}
    IN  IF S = {} THEN [found |-> FALSE, val |-> <<>>]
        ELSE [found |-> TRUE, val |-> Slice(s, Open(Min(S)) + 1, Close(Min(S)) - 1)]

\* The fallback test case built when the repaired text does not parse;
\* fresh is the value uuid.uuid4() returns.
FallbackCase(text, fresh) ==
    With(FindField(text, "name"), LAMBDA name_match :
    With(FindField(text, "id"), LAMBDA id_match :
        JObj((K("id") :> JStr(IF id_match.found THEN id_match.val ELSE <<fresh>>))
             @@ (K("name") :> JStr(IF name_match.found THEN name_match.val
                                   ELSE <<"Generated", " ", "Test", " ", "Case">>))
             @@ (K("param") :> JStr(<<"{", "}">>))
             @@ (K("headers") :> CanonicalHeaders)
             @@ (K("rule") :> JStr(json_dumps(DefaultRule))))))

\* _extract_json_from_text(text): the value json.loads returns for the
\* repaired text (whatever its type), else the fallback case when json.loads
\* raised JSONDecodeError (line 153); any other exception of json.loads is
\* re-raised as ValueError (lines 192-194).
\* fallback says which; uuid says whether uuid.uuid4() was called.
_extract_json_from_text(text, fresh) ==
    With(json_loads(_fix_json_string(text)), LAMBDA r :
        IF r.ok
        THEN [raises |-> FALSE, val |-> r.val, fallback |-> FALSE, uuid |-> FALSE]
        ELSE IF r.err = "JSONDecodeError"
        THEN [raises |-> FALSE, val |-> FallbackCase(text, fresh), fallback |-> TRUE,
              uuid |-> ~FindField(text, "id").found]
        ELSE [raises |-> TRUE, val |-> JNull, fallback |-> FALSE, uuid |-> FALSE])

\* ---------------------------------------------------- _sanitize_test_case

required_fields == <<K("id"), K("name"), K("param"), K("headers"), K("rule")>>

\* A raised exception, as a result.
Raise == [ok |-> FALSE, val |-> JNull]
Return(x) == [ok |-> TRUE, val |-> x]

\* "Ensure param/rule is a JSON string": a structured value is serialized, a
\* string is passed through _sanitize_json_string.
AsJsonString(x) ==
    IF ~IsStr(x) THEN JStr(json_dumps(x)) ELSE JStr(_sanitize_json_string(x.v))

\* A value that is no dict raises at `field not in test_case` (TypeError) or
\* at the first missing field or item assignment; a dict lacking a required
\* field raises ValueError.
_sanitize_test_case(test_case, api_name, test_type) ==
    IF ~IsObj(test_case) THEN Raise
    ELSE IF \E i \in 1..Len(required_fields) : ~HasKey(test_case, required_fields[i])
         THEN Raise
    ELSE With(Put(test_case, K("api_name"), W(api_name)), LAMBDA t1 :
         With(Put(t1, K("type"), W(test_type)), LAMBDA t2 :
         With(Put(t2, K("param"), AsJsonString(Get(t2, K("param")))), LAMBDA t3 :
         With(Put(t3, K("rule"), AsJsonString(Get(t3, K("rule")))), LAMBDA t4 :
              Return(Put(t4, K("headers"), CanonicalHeaders))))))

\* --------------------------------------- rule validation (generator 234-296)

MatchTypes == {"top", "equal", "min", "max", "pos", "not_in"}
IndexedMatchTypes == {"top", "pos", "not_in"}

\* x in ["top", "equal", ...]: x equals one of the strings.
IsOneOf(x, words) == IsStr(x) /\ Len(x.v) = 1 /\ x.v[1] \in words

\* Lines 235-252: the rule string parsed, or the default rule when it does
\* not parse (JSONDecodeError); another exception of json.loads is not
\* caught here.
LoadRule(rule_text) ==
    With(json_loads(rule_text), LAMBDA r :
        IF r.ok THEN Return(r.val)
        ELSE IF r.err = "JSONDecodeError" THEN Return(DefaultRule)
        ELSE Raise)

\* Line 254, `"rules" not in rules or not isinstance(rules["rules"], list)`:
\*   "keep"     rules is a dict holding a list under "rules"
\*   "default"  the condition is true: the default rule is substituted
\*   "raise"    the condition raises TypeError: `in` on an int, a bool or
\*              None, or rules["rules"] on a str or a list that holds "rules"
RulesCheck(rules) ==
    CASE rules.t = "obj" ->
            IF ~HasKey(rules, K("rules")) \/ ~IsArr(Get(rules, K("rules")))
            THEN "default" ELSE "keep"
      [] rules.t = "str" ->
            IF \A i \in 1..Len(rules.v) : rules.v[i] # "rules"
            THEN "default" ELSE "raise"
      [] rules.t = "arr" ->
            IF \A i \in 1..Len(rules.v) :
                    ~(IsStr(rules.v[i]) /\ rules.v[i].v = <<"rules">>)
            THEN "default" ELSE "raise"
      [] OTHER -> "raise"

\* A variant of the loop body that sets matchType, dataPath and columns of
\* an entry whether or not the entry holds valid ones.
FixRuleEntryOverwriting(rule) ==
    IF ~IsObj(rule) THEN DefaultEntry
    ELSE Put(Put(Put(rule, K("matchType"), W("equal")), K("dataPath"), W("result")),
             K("columns"), JObj(K("result") :> JNum("0")))

\* Lines 272-293, one entry of the loop. An entry that is no dict raises
\* inside the try (TypeError on `in`, on rule["matchType"] or on the item
\* assignment) and is replaced by the default entry.
FixRuleEntry(rule) ==
    IF ~IsObj(rule) THEN DefaultEntry
    ELSE With(IF ~HasKey(rule, K("matchType"))
                 \/ ~IsOneOf(Get(rule, K("matchType")), MatchTypes)
              THEN Put(rule, K("matchType"), W("equal")) ELSE rule, LAMBDA r1 :
         With(IF IsOneOf(Get(r1, K("matchType")), IndexedMatchTypes)
                 /\ ~HasKey(r1, K("index"))
              THEN Put(r1, K("index"), W("1")) ELSE r1, LAMBDA r2 :
         With(IF ~HasKey(r2, K("dataPath"))
              THEN Put(r2, K("dataPath"), W("result")) ELSE r2, LAMBDA r3 :
              IF ~HasKey(r3, K("columns"))
              THEN Put(r3, K("columns"), JObj(K("result") :> JNum("0")))
              ELSE r3)))

\* Lines 271-293: every entry of rules["rules"], in place.
FixRules(rules) ==
    With(Get(rules, K("rules")), LAMBDA entries :
        Put(rules, K("rules"),
            JArr([i \in 1..Len(entries.v) |-> FixRuleEntry(entries.v[i])])))

\* Lines 234-296 on a sanitized test case: loaded is the payload as parsed
\* (line 236), checked the value the loop runs on, fixed the value written
\* back as test_case["rule"].
ValidateRule(test_case) ==
    With(LoadRule(Get(test_case, K("rule")).v), LAMBDA load :
    IF ~load.ok THEN [ok |-> FALSE, val |-> JNull, loaded |-> JNull]
    ELSE
    With(load.val, LAMBDA loaded :
    With(RulesCheck(loaded), LAMBDA check :
    With(IF check = "default" THEN DefaultRule ELSE loaded, LAMBDA checked :
        IF check = "raise" THEN [ok |-> FALSE, val |-> JNull, loaded |-> loaded]
        ELSE [ok |-> TRUE,
              val |-> Put(test_case, K("rule"), JStr(json_dumps(FixRules(checked)))),
              loaded |-> loaded]))))

\* ------------------------------------------------- models/test_case.py

\* TestCaseType
TestCaseTypes == {"functional", "performance", "boundary", "exception"}

\* The fields of TestCase declared with Field(...): required.
TestCaseRequired ==
    {K("id"), K("name"), K("description"), K("type"), K("input_data"),
     K("expected_output")}

\* The optional fields of TestCase and their defaults.
TestCaseDefaults ==
    (K("preconditions") :> JArr(<<>>)) @@ (K("postconditions") :> JArr(<<>>))
    @@ (K("tags") :> JArr(<<>>)) @@ (K("performance_metrics") :> JNull)
    @@ (K("expected_exception") :> JNull)

IsStrList(x) == IsArr(x) /\ \A i \in 1..Len(x.v) : IsStr(x.v[i])

\* Whether value x is accepted for field k of TestCase.
FieldAccepts(k, x) ==
    CASE k \in {K("id"), K("name"), K("description")} -> IsStr(x)
      [] k = K("type") -> IsOneOf(x, TestCaseTypes)
      [] k \in {K("input_data"), K("expected_output")} -> IsObj(x)
      [] k \in {K("preconditions"), K("postconditions")} -> IsStrList(x) \/ x.t = "null"
      [] k = K("tags") -> IsStrList(x)
      [] k = K("performance_metrics") -> IsObj(x) \/ x.t = "null"
      [] k = K("expected_exception") -> IsStr(x) \/ x.t = "null"
      [] OTHER -> TRUE

\* TestCase(**kw): a missing required field or a value of the wrong type
\* raises ValidationError; a keyword that is no field of the model is
\* ignored (the model declares no `extra`), so the record holds the declared
\* fields only. The value is the record as tc.dict() returns it.
TestCase(kw) ==
    IF \E k \in TestCaseRequired : ~HasKey(kw, k) THEN Raise
    ELSE IF \E k \in DOMAIN kw.v : ~FieldAccepts(k, kw.v[k]) THEN Raise
    ELSE Return(JObj([k \in TestCaseRequired \cup DOMAIN TestCaseDefaults |->
                        IF HasKey(kw, k) THEN kw.v[k] ELSE TestCaseDefaults[k]]))

\* ------------------------------------------------------------ core/rag.py

chunk_size == 1000
chunk_overlap == 200

Spaces(n) == [i \in 1..n |-> " "]

RECURSIVE json_dumps_indent(_, _)
RECURSIVE DumpElementsIndent(_, _, _)
RECURSIVE DumpMembersIndent(_, _, _, _)

DumpElementsIndent(xs, i, lvl) ==
    IF i > Len(xs) THEN <<>>
    ELSE (IF i > 1 THEN <<",">> ELSE <<>>) \o <<NL>> \o Spaces(2 * lvl)
         \o json_dumps_indent(xs[i], lvl) \o DumpElementsIndent(xs, i + 1, lvl)

DumpMembersIndent(f, ks, i, lvl) ==
    IF i > Len(ks) THEN <<>>
    ELSE (IF i > 1 THEN <<",">> ELSE <<>>) \o <<NL>> \o Spaces(2 * lvl)
         \o <<DQ>> \o EscapeStr(ks[i]) \o <<DQ, ":", " ">>
         \o json_dumps_indent(f[ks[i]], lvl) \o DumpMembersIndent(f, ks, i + 1, lvl)

\* json.dumps(x, indent=2), x written at nesting level lvl.
json_dumps_indent(x, lvl) ==
    CASE x.t = "str" -> <<DQ>> \o EscapeStr(x.v) \o <<DQ>>
      [] x.t = "arr" ->
            IF Len(x.v) = 0 THEN <<"[", "]">>
            ELSE <<"[">> \o DumpElementsIndent(x.v, 1, lvl + 1)
                 \o <<NL>> \o Spaces(2 * lvl) \o <<"]">>
      [] x.t = "obj" ->
            IF DOMAIN x.v = {} THEN <<"{", "}">>
            ELSE <<"{">> \o DumpMembersIndent(x.v, OrderKeys(DOMAIN x.v), 1, lvl + 1)
                 \o <<NL>> \o Spaces(2 * lvl) \o <<"}">>
      [] OTHER -> <<x.v>>

\* The number of characters the symbol at position j of s stands for: the
\* length of the run at its mark (none at its count), else one character.
\* A word that is no run counts as one character; the model's texts without
\* runs are shorter than chunk_overlap either way.
CharsAt(s, j) ==
    IF s[j] \in RunMarks THEN RunLength(s[j + 1])
    ELSE IF j > 1 /\ s[j - 1] \in RunMarks THEN 0
    ELSE 1

RECURSIVE RunChars(_, _)
\* The characters of the runs of s that start at the positions P.
RunChars(s, P) ==
    IF P = {} THEN 0
    ELSE With(Min(P), LAMBDA j : CharsAt(s, j) + RunChars(s, P \ {j}))

\* The characters of s[lo..hi]: the runs, and one for every other symbol.
CharsIn(s, lo, hi) ==
    RunChars(s, {j \in lo..hi : s[j] \in RunMarks})
    + Cardinality({j \in lo..hi : CharsAt(s, j) = 1 /\ s[j] \notin RunMarks})

\* length_function=len (line 52).
TextLen(s) == CharsIn(s, 1, Len(s))

\* The characters a+1..b of s (s[a:b] of Python): a run that the slice cuts
\* becomes a shorter run.
CutChars(s, a, b) ==
    Flat([j \in 1..Len(s) |->
            IF s[j] \in RunMarks
            THEN With(CharsIn(s, 1, j - 1), LAMBDA off :
                 With((IF b < off + CharsAt(s, j) THEN b ELSE off + CharsAt(s, j))
                      - (IF a > off THEN a ELSE off), LAMBDA n :
                    IF n > 0 THEN Run(s[j], n) ELSE <<>>))
            ELSE IF j > 1 /\ s[j - 1] \in RunMarks THEN <<>>
            ELSE With(CharsIn(s, 1, j - 1), LAMBDA off :
                    IF a <= off /\ off < b THEN <<s[j]>> ELSE <<>>)],
         1, Len(s))

\* The separators of RecursiveCharacterTextSplitter: "\n\n", "\n", " ", "".
Separators == << <<NL, NL>>, <<NL>>, <<" ">>, <<>> >>

\* The first position >= i of s where sep starts, or 0.
NextAt(s, sep, i) ==
    LET S == {j \in i..(Len(s) - Len(sep) + 1) : SubSeq(s, j, j + Len(sep) - 1) = sep}
    IN  IF S = {} THEN 0 ELSE Min(S)

RECURSIVE PiecesFrom(_, _, _, _)
\* The pieces of s[start..] between the occurrences of sep found from
\* position from on, each occurrence kept at the head of the piece after it.
PiecesFrom(s, sep, start, from) ==
    With(NextAt(s, sep, from), LAMBDA j :
        IF j = 0 THEN <<Slice(s, start, Len(s))>>
        ELSE <<Slice(s, start, j - 1)>> \o PiecesFrom(s, sep, j, j + Len(sep)))

\* The splitter's split on a separator that is kept (keep_separator is its
\* default True); empty pieces are dropped.
_split_text_with_regex(s, sep) ==
    SelectSeq(PiecesFrom(s, sep, 1, 1), LAMBDA piece : Len(piece) > 0)

\* The pieces joined (the joining separator is "" when separators are
\* kept) and stripped; no document when nothing is left.
_join_docs(cur) ==
    With(Strip(Flat(cur, 1, Len(cur))), LAMBDA text :
        IF Len(text) = 0 THEN <<>> ELSE <<text>>)

RECURSIVE PopFront(_, _)
\* The while loop of _merge_splits: pieces leave the front of the current
\* document until chunk_overlap characters or fewer are left and the piece
\* of len characters fits.
PopFront(cur, len) ==
    With(TextLen(Flat(cur, 1, Len(cur))), LAMBDA total :
        IF total > chunk_overlap \/ (total + len > chunk_size /\ total > 0)
        THEN PopFront(Tail(cur), len)
        ELSE cur)

RECURSIVE MergeFrom(_, _, _, _)
\* The for loop of _merge_splits from piece i on: cur is the current
\* document, docs the documents closed so far.
MergeFrom(splits, i, cur, docs) ==
    IF i > Len(splits) THEN docs \o _join_docs(cur)
    ELSE With(TextLen(splits[i]), LAMBDA len :
         IF TextLen(Flat(cur, 1, Len(cur))) + len > chunk_size /\ Len(cur) > 0
         THEN MergeFrom(splits, i + 1, Append(PopFront(cur, len), splits[i]),
                        docs \o _join_docs(cur))
         ELSE MergeFrom(splits, i + 1, Append(cur, splits[i]), docs))

_merge_splits(splits) == MergeFrom(splits, 1, <<>>, <<>>)

RECURSIVE Windows(_, _)
\* _merge_splits on the single characters of s: a document is closed at
\* chunk_size characters and the next one starts chunk_overlap characters
\* before its end.
Windows(s, off) ==
    IF TextLen(s) - off <= chunk_size THEN _join_docs(<<CutChars(s, off, TextLen(s))>>)
    ELSE _join_docs(<<CutChars(s, off, off + chunk_size)>>)
         \o Windows(s, off + chunk_size - chunk_overlap)

RECURSIVE _split_text(_, _)
RECURSIVE SplitPieces(_, _, _, _, _)

\* The for loop of _split_text over the pieces from i on: c is the position
\* of the separator in use, good the short pieces not yet merged, final the
\* chunks so far. A piece of chunk_size characters or more is split again
\* with the separators after c.
SplitPieces(splits, i, c, good, final) ==
    IF i > Len(splits)
    THEN final \o (IF Len(good) > 0 THEN _merge_splits(good) ELSE <<>>)
    ELSE IF TextLen(splits[i]) < chunk_size
    THEN SplitPieces(splits, i + 1, c, Append(good, splits[i]), final)
    ELSE SplitPieces(splits, i + 1, c, <<>>,
                     final \o (IF Len(good) > 0 THEN _merge_splits(good) ELSE <<>>)
                           \o _split_text(splits[i], c + 1))

\* _split_text(text, separators[k:]): the first separator that occurs in the
\* text, or "", is used; with "" the pieces are the characters.
_split_text(s, k) ==
    With(Min({j \in k..Len(Separators) :
                Len(Separators[j]) = 0 \/ NextAt(s, Separators[j], 1) # 0}), LAMBDA c :
        IF Len(Separators[c]) = 0 THEN Windows(s, 0)
        ELSE SplitPieces(_split_text_with_regex(s, Separators[c]), 1, c, <<>>, <<>>))

\* A variant of the splitter that never splits.
SplitNever(text) == <<text>>

\* text_splitter.split_text(text) (line 81) of the
\* RecursiveCharacterTextSplitter made at lines 49-53.
split_text(text) == _split_text(text, 1)

\* test_case.get(key): None when the key is missing.
GetOrNone(x, k) == IF HasKey(x, k) THEN Get(x, k) ELSE JNull

\* The documents add_test_cases builds for one test case.
DocumentsOf(test_case) ==
    With(split_text(json_dumps_indent(test_case, 0)), LAMBDA chunks :
        [i \in 1..Len(chunks) |->
            [page_content |-> chunks[i],
             metadata |-> [test_case_id |-> GetOrNone(test_case, K("id")),
                           type |-> GetOrNone(test_case, K("type")),
                           api_name |-> GetOrNone(test_case, K("api_name"))]]])

RECURSIVE DocumentsOfAll(_)
DocumentsOfAll(cases) ==
    IF cases = <<>> THEN <<>>
    ELSE DocumentsOf(Head(cases)) \o DocumentsOfAll(Tail(cases))

\* The document FAISS.from_texts(["placeholder"]) creates.
Placeholder == [page_content |-> <<"placeholder">>, metadata |-> <<>>]

\* A variant of add_test_cases that adds the documents to the in-memory
\* index and does not save it.
AddWithoutSave(vs, dk, cases, outcome) ==
    With(vs \o DocumentsOfAll(cases), LAMBDA docs :
        CASE outcome = "embed_error" -> [ok |-> FALSE, vector_store |-> vs, disk |-> dk]
          [] OTHER -> [ok |-> outcome = "ok", vector_store |-> docs, disk |-> dk])

\* A variant of add_test_cases that builds the index anew from the
\* placeholder and the documents of this call.
AddReplacing(vs, dk, cases, outcome) ==
    With(<<Placeholder>> \o DocumentsOfAll(cases), LAMBDA docs :
        CASE outcome = "ok" -> [ok |-> TRUE, vector_store |-> docs, disk |-> docs]
          [] outcome = "embed_error" -> [ok |-> FALSE, vector_store |-> vs, disk |-> dk]
          [] OTHER -> [ok |-> FALSE, vector_store |-> docs, disk |-> dk])

\* add_test_cases(test_cases) on the in-memory index vs and the saved index
\* dk. outcome is what the collaborators do:
\*   "ok"           add_documents and save_local succeed
\*   "embed_error"  add_documents raises (the embedding provider fails)
\*   "save_error"   save_local raises after the documents were added
add_test_cases(vs, dk, cases, outcome) ==
    With(vs \o DocumentsOfAll(cases), LAMBDA docs :
        CASE outcome = "ok" -> [ok |-> TRUE, vector_store |-> docs, disk |-> docs]
          [] outcome = "embed_error" -> [ok |-> FALSE, vector_store |-> vs, disk |-> dk]
          [] OTHER -> [ok |-> FALSE, vector_store |-> docs, disk |-> dk])

AddOutcomes == {"ok", "embed_error", "save_error"}

\* doc.metadata.get(key): None when the document has no such metadata.
MetadataGet(doc, key) ==
    IF key \in DOMAIN doc.metadata THEN doc.metadata[key] ELSE JNull

\* A variant of the filter that lets a document pass when it agrees with
\* the filter under some key.
FilterMatchesAny(doc, filter) ==
    \E key \in DOMAIN filter : SameValue(MetadataGet(doc, key), W(filter[key]))

\* The filter of similarity_search: a document passes when its metadata
\* equals the filter's value under every key of the filter; a filter of None
\* (no key) lets every document pass.
FilterMatches(doc, filter) ==
    \A key \in DOMAIN filter : SameValue(MetadataGet(doc, key), W(filter[key]))

\* The positions of the index whose documents pass the filter.
Matching(vs, filter) == {i \in 1..Len(vs) : FilterMatches(vs[i], filter)}

\* What a query of the index can do: the embedding of the query fails, or
\* the search returns the k nearest documents among those that pass the
\* filter, all of them when fewer than k pass (the index fetches its 20
\* nearest documents before it filters; the model's indexes are smaller).
\* Which documents are nearest depends on the embeddings: any choice sel of
\* that many passing positions is possible.
QueryOutcomes(vs, filter, k) ==
    With(Matching(vs, filter), LAMBDA M :
        {[fails |-> TRUE, sel |-> {}]}
        \cup {[fails |-> FALSE, sel |-> S] :
                S \in {T \in SUBSET M :
                          Cardinality(T) = IF Cardinality(M) < k THEN Cardinality(M) ELSE k}})

\* vector_store.similarity_search(query, k=k, filter=filter) with outcome q:
\* the chosen documents, in the order of the index.
similarity_search(vs, q) ==
    SelectSeq([i \in 1..Len(vs) |-> [doc |-> vs[i], at |-> i]],
              LAMBDA e : e.at \in q.sel)

\* Lines 124-132 and 151-159: each result's page_content parsed; a document
\* whose text raises JSONDecodeError is skipped, another exception of
\* json.loads leaves the method.
RECURSIVE CasesOf(_, _)
CasesOf(results, i) ==
    IF i > Len(results) THEN [raises |-> FALSE, cases |-> <<>>]
    ELSE With(json_loads(results[i].doc.page_content), LAMBDA r :
         With(CasesOf(results, i + 1), LAMBDA rest :
            IF ~r.ok /\ r.err # "JSONDecodeError" THEN [raises |-> TRUE, cases |-> <<>>]
            ELSE IF rest.raises THEN rest
            ELSE [raises |-> FALSE,
                  cases |-> (IF r.ok THEN <<r.val>> ELSE <<>>) \o rest.cases]))

\* The filter search_similar_cases builds (lines 110-114): a key for each of
\* api_name and test_type that is given and not empty ("" stands for both
\* None and the empty string).
FilterOfQuery(api_name, test_type) ==
    [key \in (IF api_name # "" THEN {"api_name"} ELSE {})
             \cup (IF test_type # "" THEN {"type"} ELSE {}) |->
        IF key = "api_name" THEN api_name ELSE test_type]

\* The filter get_test_cases_by_type builds (lines 141-143): type always,
\* api_name when given and not empty.
FilterOfType(test_type, api_name) ==
    [key \in {"type"} \cup (IF api_name # "" THEN {"api_name"} ELSE {}) |->
        IF key = "api_name" THEN api_name ELSE test_type]

\* The body shared by both methods: the query (its exception is not caught)
\* and the processing of the results.
SearchWith(vs, filter, q) ==
    IF q.fails THEN [raises |-> TRUE, filter |-> filter, docs |-> <<>>, cases |-> <<>>]
    ELSE With(similarity_search(vs, q), LAMBDA results :
         With(CasesOf(results, 1), LAMBDA out :
            [raises |-> out.raises, filter |-> filter,
             docs |-> [i \in 1..Len(results) |-> results[i].doc],
             cases |-> out.cases]))

search_similar_cases(vs, api_name, test_type, q) ==
    SearchWith(vs, FilterOfQuery(api_name, test_type), q)

get_test_cases_by_type(vs, test_type, api_name, q) ==
    SearchWith(vs, FilterOfType(test_type, api_name), q)

\* -------------------------------------------- generator._generate_test_case

\* GUIDELINES of core/prompts.py: its keys are the known test types.
GUIDELINES == {"functional", "performance", "boundary", "exception"}

\* The values uuid.uuid4() returns, in the order of the calls.
UUIDS == <<"uuid-1", "uuid-2", "uuid-3", "uuid-4", "uuid-5", "uuid-6",
           "uuid-7", "uuid-8", "uuid-9", "uuid-10">>

\* What the run of one case leaves behind when it ends before `stage`.
NoCase == JNull

\* Lines 224-299 of _generate_test_case: from the model's answer to the
\* TestCase object. These steps read nothing but their arguments. The result
\* tells how far the case got:
\*   stage     the step that ended it: "INVOKE_MODEL", "REPAIR" (sanitizing
\*             the repaired value raised), "VALIDATE" (rule validation or
\*             TestCase(...) raised) or "DONE"
\*   ok        the TestCase object obj was created
\*   raised    the statement that raised: "llm.invoke" (line 224),
\*             "_extract_json_from_text" (line 228),
\*             "_sanitize_test_case" (line 232), "rule" (lines 234-296),
\*             "TestCase" (line 299), or "none"
\*   extracted the value _extract_json_from_text returned
\*   loaded    the rule payload as parsed at line 236
\*   test_case the validated dict handed to TestCase(**...) and to the store
BuildCase(api_name, test_type, llm, nuuid) ==
    With([ok |-> FALSE, stage |-> "INVOKE_MODEL", extracted |-> NoCase,
          fallback |-> FALSE, loaded |-> NoCase, test_case |-> NoCase,
          obj |-> NoCase, nuuid |-> nuuid, raised |-> "none"], LAMBDA base :
    IF llm.raises THEN [base EXCEPT !.raised = "llm.invoke"]
    ELSE
    With(_extract_json_from_text(llm.content, UUIDS[nuuid + 1]), LAMBDA ex :
    IF ex.raises
    THEN [base EXCEPT !.stage = "REPAIR", !.raised = "_extract_json_from_text"]
    ELSE
    With([base EXCEPT !.extracted = ex.val, !.fallback = ex.fallback,
                      !.nuuid = IF ex.uuid THEN nuuid + 1 ELSE nuuid,
                      !.stage = "REPAIR"], LAMBDA b1 :
    With(_sanitize_test_case(ex.val, api_name, test_type), LAMBDA san :
    IF ~san.ok THEN [b1 EXCEPT !.raised = "_sanitize_test_case"]
    ELSE
    With(ValidateRule(san.val), LAMBDA val :
    IF ~val.ok
    THEN [b1 EXCEPT !.stage = "VALIDATE", !.loaded = val.loaded, !.raised = "rule"]
    ELSE
    With(TestCase(val.val), LAMBDA obj :
    IF ~obj.ok
    THEN [b1 EXCEPT !.stage = "VALIDATE", !.loaded = val.loaded,
                    !.test_case = val.val, !.raised = "TestCase"]
    ELSE [b1 EXCEPT !.ok = TRUE, !.stage = "DONE", !.loaded = val.loaded,
                    !.test_case = val.val, !.obj = obj.val]))))))

\* ------------------------------------------------- what the model answers

\* A rule entry that needs no fix-up.
GoodEntry ==
    JObj((K("matchType") :> W("min")) @@ (K("dataPath") :> W("a"))
         @@ (K("columns") :> JObj(K("a") :> JNum("1"))))

GoodRule == JObj(K("rules") :> JArr(<<GoodEntry>>))

\* An entry with some fields removed or replaced.
Without(x, k) == JObj([j \in DOMAIN x.v \ {k} |-> x.v[j]])

\* The rule payloads the model supplies: structured values first, then
\* strings (a JSON document inside a string, and text that is no JSON).
RuleVariants ==
    << GoodRule,
      JObj(K("rules") :> JArr(<<>>)),
      JObj(K("rules") :> JArr(<<Put(GoodEntry, K("matchType"), W("top"))>>)),
      JObj(K("rules") :> JArr(<<Put(Put(GoodEntry, K("matchType"), W("pos")),
                                     K("index"), JStr(<<>>))>>)),
      JObj(K("rules") :> JArr(<<Put(Put(GoodEntry, K("matchType"), W("not_in")),
                                     K("index"), W("5"))>>)),
      JObj(K("rules") :> JArr(<<Put(GoodEntry, K("matchType"), W("bad"))>>)),
      JObj(K("rules") :> JArr(<<Put(GoodEntry, K("matchType"), JNum("5"))>>)),
      JObj(K("rules") :> JArr(<<Put(GoodEntry, K("columns"), JNum("0"))>>)),
      JObj(K("rules") :> JArr(<<Without(GoodEntry, K("dataPath")),
                                 JNum("5"),
                                 Without(GoodEntry, K("columns"))>>)),
      JObj(K("rules") :> JArr(<<W("matchType"), JNull, EmptyObj, GoodEntry>>)),
      JObj(K("rules") :> EmptyObj),
      EmptyObj,
      JNum("5"),
      JNull,
      JTrue,
      JArr(<<JNum("1")>>),
      JArr(<<W("rules")>>),
      JStr(<<"not", " ", "json">>),
      JStr(<<"5">>),
      JStr(<<DQ, "rules", DQ>>),
      JStr(json_dumps(GoodRule)),
      JStr(<<"[", HugeInt, "]">>) >>

\* The parameter payloads the model supplies: structured values and strings.
ParamVariants ==
    << EmptyObj,
      JObj(K("a") :> JNum("1")),
      JStr(<<"{", "}">>),
      JStr(<<"5">>),
      JStr(<<"not", " ", "json">>),
      JStr(<<DQ, "x", BSL, DQ, "y", DQ>>) >>

\* A complete answer: the five fields the generator requires and the
\* fields TestCase requires.
Answer(param, rule) ==
    JObj((K("id") :> W("1")) @@ (K("name") :> W("n"))
         @@ (K("description") :> W("d")) @@ (K("input_data") :> EmptyObj)
         @@ (K("expected_output") :> EmptyObj) @@ (K("param") :> param)
         @@ (K("headers") :> JObj(K("a") :> W("x"))) @@ (K("rule") :> rule))

\* An answer in the generator's own schema only: id, name, param, headers, rule.
ReducedAnswer(param, rule) ==
    JObj((K("id") :> W("1")) @@ (K("name") :> W("n")) @@ (K("param") :> param)
         @@ (K("headers") :> CanonicalHeaders) @@ (K("rule") :> rule))

GoodText == json_dumps(Answer(EmptyObj, GoodRule))
ReducedText == json_dumps(ReducedAnswer(EmptyObj, GoodRule))
ProseText == <<"I", " ", "cannot", " ", "do", " ", "that", ".">>
NumberRuleText == json_dumps(Answer(EmptyObj, JNum("5")))
NoIdText == json_dumps(Without(Answer(EmptyObj, GoodRule), K("id")))
FencedText == <<FENCE, "json", NL>> \o GoodText \o <<NL, FENCE>>
\* Text that is no JSON but holds a name and an id: {"name": "n", "id": "7", oops}
NamedBrokenText ==
    <<"{", DQ, "name", DQ, ":", " ", DQ, "n", DQ, ",", " ",
      DQ, "id", DQ, ":", " ", DQ, "7", DQ, ",", " ", "oops", "}">>
\* An object holding an integer of 5000 digits.
HugeIntText == json_dumps(JObj((K("name") :> W("n")) @@ (K("a") :> JNum(HugeInt))))
\* A complete answer wrapped in {"TestCase": ...} or {"testCase": ...}.
WrappedText == json_dumps(JObj(K("TestCase") :> Answer(EmptyObj, GoodRule)))
WrappedLowerText == json_dumps(JObj(K("testCase") :> Answer(EmptyObj, GoodRule)))
\* Valid JSON whose name holds what the repair patterns look for.
TrickyNames ==
    << <<"it", SQ, "s">>, <<"a", "}">>, <<",", "}">>, <<"}", "{">>, <<"]", "{">>,
       <<":", " ", SQ, "b", SQ>>, <<FENCE, "json", " ">>, <<"a", ",", " ", "b">> >>
TrickyText(i) == json_dumps(Put(Answer(EmptyObj, GoodRule), K("name"), JStr(TrickyNames[i])))

\* Text around a JSON object: a prefix holds no "{" and a suffix no "}".
Prefixes ==
    << <<>>, <<"Here", " ", "is", " ", "it", ":", " ">>, <<FENCE, "json", NL>>,
       <<DQ, "name", DQ, ":", " ", DQ, "evil", DQ, " ">> >>
Suffixes == << <<>>, <<NL, FENCE>>, <<" ", "done", ".">> >>
\* Valid JSON objects: one the repair leaves as it is, one it breaks.
SpanTexts == << GoodText, TrickyText(6) >>
Surrounded(p, j, s) == Prefixes[p] \o SpanTexts[j] \o Suffixes[s]

\* The answers of a batch run and of a single-case run.
BatchResponses == {GoodText, ReducedText, ProseText, NumberRuleText, NoIdText}

CaseResponses ==
    BatchResponses
    \cup {FencedText, NamedBrokenText, HugeIntText, WrappedText, WrappedLowerText}
    \cup {TrickyText(i) : i \in DOMAIN TrickyNames}
    \cup {Surrounded(p, j, s) :
            p \in DOMAIN Prefixes, j \in DOMAIN SpanTexts, s \in DOMAIN Suffixes}
    \cup {json_dumps(Answer(ParamVariants[p], RuleVariants[r])) :
            p \in DOMAIN ParamVariants, r \in DOMAIN RuleVariants}

\* llm.invoke(messages): it raises, or returns a response with this content.
LLMOutcomes(m) ==
    {[raises |-> TRUE, content |-> <<>>]}
    \cup {[raises |-> FALSE, content |-> t] :
            t \in IF m = "case" THEN CaseResponses
                  ELSE BatchResponses}

\* The calls of BuildCase the model makes from a fresh generator, worked out
\* once: the steps are a function of their arguments.
BuiltTypes == {"functional", "boundary"}

BuiltKeys ==
    {<<"api", ty, llm, 0>> : ty \in BuiltTypes, llm \in LLMOutcomes("case")}

BuiltTable == [k \in BuiltKeys |-> BuildCase(k[1], k[2], k[3], k[4])]

Built(api_name, test_type, llm, nuuid) ==
    IF <<api_name, test_type, llm, nuuid>> \in BuiltKeys
    THEN BuiltTable[<<api_name, test_type, llm, nuuid>>]
    ELSE BuildCase(api_name, test_type, llm, nuuid)

\* The number of examples _get_similar_cases asks for (k=3).
TopK == 3

\* No query of the store (similar_cases is given).
NoQuery == [fails |-> FALSE, sel |-> {}]

\* _get_similar_cases(api_name, test_type) with the query doing q: the cases
\* get_test_cases_by_type returns, or [] when it raises (lines 41-43).
_get_similar_cases(vs, api_name, test_type, q) ==
    With(get_test_cases_by_type(vs, test_type, api_name, q), LAMBDA r :
        IF r.raises THEN <<>> ELSE r.cases)

\* Lines 200-202: the similar cases of the prompt. similar_cases is None
\* (JNull) or a list (JArr); the store is queried only for None.
SelectExamples(similar_cases, vs, api_name, test_type, q) ==
    IF similar_cases.t = "null"
    THEN [queried |-> TRUE, cases |-> _get_similar_cases(vs, api_name, test_type, q)]
    ELSE [queried |-> FALSE, cases |-> similar_cases.v]

\* Line 205: the similar cases as the text put into the prompt.
formatted_cases(cases) ==
    IF Len(cases) = 0 THEN <<"[", "]">> ELSE json_dumps_indent(JArr(cases), 0)

\* Lines 209-214: the values test_case_prompt.format(...) is given. The
\* template itself is no part of the sources; the prompt is modelled as
\* the values it is rendered from.
formatted_prompt(api_name, cases, test_type) ==
    [api_definition |-> api_name, similar_cases |-> formatted_cases(cases),
     test_type |-> test_type, guidelines |-> test_type]

\* The steps a case enters, in order. SELECT_EXAMPLES is the query of the
\* store (line 202), BUILD_PROMPT lines 205-221, INVOKE_MODEL line 224,
\* REPAIR line 228, VALIDATE lines 232-299, PERSIST lines 303-307, DONE
\* line 309.
StepsOf(queried, raised) ==
    (IF queried THEN <<"SELECT_EXAMPLES">> ELSE <<>>)
    \o <<"BUILD_PROMPT", "INVOKE_MODEL">>
    \o (CASE raised = "llm.invoke" -> <<>>
          [] raised = "_extract_json_from_text" -> <<"REPAIR">>
          [] raised = "none" -> <<"REPAIR", "VALIDATE", "PERSIST", "DONE">>
          [] OTHER -> <<"REPAIR", "VALIDATE">>)

\* A variant of _generate_test_case in which a failure of add_test_cases is
\* not caught: the case fails with the store.
GenerateFailingWithStore(api_name, test_type, similar_cases, q, llm, add, vs, dk, nuuid) ==
    With(SelectExamples(similar_cases, vs, api_name, test_type, q), LAMBDA sel :
    With(Built(api_name, test_type, llm, nuuid), LAMBDA b :
    With(add_test_cases(vs, dk, <<b.test_case>>, add), LAMBDA put :
        [ok |-> b.ok /\ put.ok, stage |-> b.stage, llm |-> llm,
         queried |-> sel.queried,
         prompt |-> formatted_prompt(api_name, sel.cases, test_type),
         steps |-> StepsOf(sel.queried, b.raised),
         similar_cases |-> sel.cases, extracted |-> b.extracted,
         fallback |-> b.fallback, loaded |-> b.loaded,
         test_case |-> b.test_case, obj |-> b.obj,
         persist |-> IF ~b.ok THEN "none" ELSE IF put.ok THEN "ok" ELSE "failed",
         vector_store |-> IF b.ok THEN put.vector_store ELSE vs,
         disk |-> IF b.ok THEN put.disk ELSE dk,
         nuuid |-> b.nuuid, raised |-> b.raised])))

\* _generate_test_case(api_definition, test_type, similar_cases) with the
\* store query doing q, the model answering llm ([raises, content]) and the
\* store behaving as `add`: lines 200-221, the steps of BuildCase, then
\* lines 302-309. In the result,
\*   ok        the TestCase object obj is returned (else ValueError is raised)
\*   persist   "ok", "failed" (add_test_cases raised, logged as a warning) or
\*             "none" (not reached)
_generate_test_case(api_name, test_type, similar_cases, q, llm, add, vs, dk, nuuid) ==
    With(SelectExamples(similar_cases, vs, api_name, test_type, q), LAMBDA sel :
    With(Built(api_name, test_type, llm, nuuid), LAMBDA b :
    With(add_test_cases(vs, dk, <<b.test_case>>, add), LAMBDA put :
        [ok |-> b.ok, stage |-> b.stage, llm |-> llm,
         queried |-> sel.queried,
         prompt |-> formatted_prompt(api_name, sel.cases, test_type),
         steps |-> StepsOf(sel.queried, b.raised),
         similar_cases |-> sel.cases, extracted |-> b.extracted,
         fallback |-> b.fallback, loaded |-> b.loaded,
         test_case |-> b.test_case, obj |-> b.obj,
         persist |-> IF ~b.ok THEN "none" ELSE IF put.ok THEN "ok" ELSE "failed",
         vector_store |-> IF b.ok THEN put.vector_store ELSE vs,
         disk |-> IF b.ok THEN put.disk ELSE dk,
         nuuid |-> b.nuuid, raised |-> b.raised])))

\* ------------------------------------------------ generate_test_cases, state

VARIABLES
    mode,          \* "batch" or "case": which answers the model draws from
    api_name,      \* api_definition.name
    test_types,    \* the argument test_types
    num_cases,     \* the argument num_cases
    pc,            \* "for_type" (line 320), "for_case" (line 325), "returned",
                   \* "raised_unknown_type" (line 323), "raised_case" (line 313)
    ti,            \* position of the outer loop in test_types
    ci,            \* the inner loop's i
    test_cases,    \* the list test_cases of TestCase objects
    vector_store,  \* rag.vector_store: the documents of the in-memory index
    disk,          \* the index as last saved at vector_store_path
    uuids,         \* number of uuid.uuid4() calls so far
    last,          \* the run of the latest _generate_test_case call
    rag,           \* the latest call of a TestCaseRAG method and its result
    added          \* the texts of the documents of every add_test_cases
                   \* call that has returned, in order

vars == <<mode, api_name, test_types, num_cases, pc, ti, ci, test_cases,
          vector_store, disk, uuids, last, rag, added>>

MaxCases == 2

\* The lists of test types a caller passes ("bogus" is no key of GUIDELINES).
TypeLists ==
    { <<>>, <<"functional">>, <<"bogus">>, <<"functional", "boundary">>,
      <<"functional", "bogus", "boundary">> }

NoRun ==
    [ok |-> FALSE, stage |-> "none", llm |-> [raises |-> FALSE, content |-> <<>>],
     queried |-> FALSE, prompt |-> formatted_prompt("", <<>>, ""), steps |-> <<>>,
     similar_cases |-> <<>>, extracted |-> NoCase, fallback |-> FALSE,
     loaded |-> NoCase, test_case |-> NoCase, obj |-> NoCase, persist |-> "none",
     vector_store |-> <<>>, disk |-> <<>>, nuuid |-> 0, raised |-> "none"]

\* No method of the store called yet.
NoCall ==
    [op |-> "none", raises |-> FALSE, filter |-> <<>>, k |-> 0,
     docs |-> <<>>, cases |-> <<>>, fails |-> FALSE]

\* The texts of the documents of the cases.
TextsOf(cases) ==
    With(DocumentsOfAll(cases), LAMBDA docs :
        [i \in 1..Len(docs) |-> docs[i].page_content])

\* A variant of line 330 that passes only the latest case.
BatchLatestCaseOnly(cases) ==
    JArr(IF Len(cases) = 0 THEN <<>> ELSE <<cases[Len(cases)]>>)

\* Line 330: the cases generated so far, as dicts.
BatchSimilarCases(cases) == JArr(cases)

\* TestCaseGenerator() with no index on disk, then the entry of
\* generate_test_cases.
InitCommon ==
    /\ api_name = "api"
    /\ pc = "for_type"
    /\ ti = 1
    /\ ci = 0
    /\ test_cases = <<>>
    /\ vector_store = <<Placeholder>>
    /\ disk = <<Placeholder>>
    /\ uuids = 0
    /\ last = NoRun
    /\ rag = NoCall
    /\ added = <<>>

Init ==
    /\ mode = "batch"
    /\ test_types \in TypeLists
    /\ num_cases \in 0..MaxCases
    /\ InitCommon

\* One call of _generate_test_case: one type, num_cases = 1.
InitCase ==
    /\ mode = "case"
    /\ test_types = <<"functional">>
    /\ num_cases = 1
    /\ InitCommon

\* A variant of the type check that passes over an unknown type and goes on
\* with the next one.
NextTypeSkipping ==
    /\ pc = "for_type"
    /\ IF ti > Len(test_types) THEN pc' = "returned" /\ ci' = ci /\ ti' = ti
       ELSE IF test_types[ti] \notin GUIDELINES
            THEN pc' = pc /\ ci' = ci /\ ti' = ti + 1
       ELSE pc' = "for_case" /\ ci' = 0 /\ ti' = ti
    /\ UNCHANGED <<mode, api_name, test_types, num_cases, test_cases,
                   vector_store, disk, uuids, last, rag, added>>

\* Lines 320-323: the next test type, or the end of the outer loop.
NextType ==
    /\ pc = "for_type"
    /\ IF ti > Len(test_types) THEN pc' = "returned" /\ ci' = ci
       ELSE IF test_types[ti] \notin GUIDELINES
            THEN pc' = "raised_unknown_type" /\ ci' = ci
       ELSE pc' = "for_case" /\ ci' = 0
    /\ UNCHANGED <<mode, api_name, test_types, num_cases, ti, test_cases,
                   vector_store, disk, uuids, last, rag, added>>

\* Lines 325-332: one iteration of the inner loop. The earlier cases of the
\* batch are passed as similar_cases; an exception of _generate_test_case
\* is not caught and leaves generate_test_cases.
GenerateCase ==
    /\ pc = "for_case"
    /\ ci < num_cases
    /\ \E llm \in LLMOutcomes(mode), add \in AddOutcomes :
          \E r \in {_generate_test_case(api_name, test_types[ti],
                                        BatchSimilarCases(test_cases), NoQuery,
                                        llm, add, vector_store, disk, uuids)} :
              /\ last' = r
              /\ added' = IF r.persist = "ok" THEN added \o TextsOf(<<r.test_case>>)
                          ELSE added
              /\ vector_store' = r.vector_store
              /\ disk' = r.disk
              /\ uuids' = r.nuuid
              /\ IF r.ok
                 THEN /\ test_cases' = Append(test_cases, r.obj)
                      /\ ci' = ci + 1
                      /\ pc' = pc
                 ELSE /\ pc' = "raised_case"
                      /\ UNCHANGED <<test_cases, ci>>
    /\ UNCHANGED <<mode, api_name, test_types, num_cases, ti, rag>>

\* The inner loop is exhausted: on to the next type.
EndCases ==
    /\ pc = "for_case"
    /\ ci = num_cases
    /\ ti' = ti + 1
    /\ pc' = "for_type"
    /\ UNCHANGED <<mode, api_name, test_types, num_cases, ci, test_cases,
                   vector_store, disk, uuids, last, rag, added>>

Next == NextType \/ GenerateCase \/ EndCases

Spec == Init /\ [][Next]_vars

SpecCase == InitCase /\ [][Next]_vars

\* ------------------------------------------------- the store on its own

\* The most documents the index holds, the placeholder included.
MaxDocs == 3

\* A case as a caller of add_test_cases passes it.
StoredCase(id, api, type) ==
    JObj((K("id") :> W(id)) @@ (K("name") :> W("n"))
         @@ (K("api_name") :> W(api)) @@ (K("type") :> W(type)))

\* The cases added to the store: two types and two APIs.
StoreCases ==
    << StoredCase("1", "api", "functional"), StoredCase("2", "api", "boundary"),
       StoredCase("3", "other", "functional") >>

\* Cases of one API and type whose texts exceed the chunk size: a case of
\* four fields of 250 letters; a case with one line of nearly chunk_size
\* characters; a case whose name is 2000 opening brackets.
LinesCase ==
    JObj((K("name") :> JStr(Run(WordRun, 250)))
         @@ (K("description") :> JStr(Run(WordRun, 250)))
         @@ (K("param") :> JStr(Run(WordRun, 250)))
         @@ (K("rule") :> JStr(Run(WordRun, 250)))
         @@ StoredCase("2", "api", "functional").v)
TagCase ==
    JObj((K("a") :> JArr(<<JStr(Run(WordRun, 992))>>))
         @@ StoredCase("3", "api", "functional").v)
DeepCase ==
    JObj((K("name") :> JStr(Run(BracketRun, 2000)))
         @@ StoredCase("4", "api", "functional").v)
ChunkCases == <<LinesCase, TagCase, DeepCase>>

\* The cases the callers of add_test_cases pass in a run of this mode.
CasePool(m) == IF m = "chunks" THEN ChunkCases ELSE StoreCases

\* The api_name and test_type arguments of a search ("": not given).
ApiNames == {"", "api"}
TypeNames == {"", "functional"}
\* The k arguments of a search.
Limits == {1, TopK}
\* The arguments of the searches of a run of this mode: the cases of a
\* "chunks" run share one API and one type, so one filter stands for all.
ApiNamesOf(m) == IF m = "chunks" THEN {"api"} ELSE ApiNames
TypeNamesOf(m) == IF m = "chunks" THEN {"functional"} ELSE TypeNames

\* A TestCaseRAG created with no index on disk (lines 64-72), and a
\* generator using it.
InitStore ==
    /\ mode = "store"
    /\ test_types = <<>>
    /\ num_cases = 0
    /\ InitCommon

\* rag.add_test_cases([case]).
AddCases ==
    /\ Len(vector_store) < MaxDocs
    /\ \E i \in DOMAIN CasePool(mode), add \in AddOutcomes :
          \E r \in {add_test_cases(vector_store, disk, <<CasePool(mode)[i]>>, add)} :
              /\ vector_store' = r.vector_store
              /\ disk' = r.disk
              /\ rag' = [NoCall EXCEPT !.op = "add_test_cases", !.raises = ~r.ok]
              /\ added' = IF r.ok THEN added \o TextsOf(<<CasePool(mode)[i]>>) ELSE added
    /\ UNCHANGED <<mode, api_name, test_types, num_cases, pc, ti, ci, test_cases,
                   uuids, last>>

\* rag.search_similar_cases(query, api_name, test_type, k).
SearchSimilar ==
    /\ \E a \in ApiNamesOf(mode), ty \in TypeNamesOf(mode), k \in Limits :
          \E q \in QueryOutcomes(vector_store, FilterOfQuery(a, ty), k) :
              \E r \in {search_similar_cases(vector_store, a, ty, q)} :
                  rag' = [op |-> "search_similar_cases", raises |-> r.raises,
                          filter |-> r.filter, k |-> k, docs |-> r.docs,
                          cases |-> r.cases, fails |-> q.fails]
    /\ UNCHANGED <<mode, api_name, test_types, num_cases, pc, ti, ci, test_cases,
                   vector_store, disk, uuids, last, added>>

\* rag.get_test_cases_by_type(test_type, api_name, k).
GetByType ==
    /\ \E a \in ApiNamesOf(mode), ty \in TypeNamesOf(mode) \ {""}, k \in Limits :
          \E q \in QueryOutcomes(vector_store, FilterOfType(ty, a), k) :
              \E r \in {get_test_cases_by_type(vector_store, ty, a, q)} :
                  rag' = [op |-> "get_test_cases_by_type", raises |-> r.raises,
                          filter |-> r.filter, k |-> k, docs |-> r.docs,
                          cases |-> r.cases, fails |-> q.fails]
    /\ UNCHANGED <<mode, api_name, test_types, num_cases, pc, ti, ci, test_cases,
                   vector_store, disk, uuids, last, added>>

\* The process stops and a new TestCaseRAG is created on the same path: the
\* index is loaded as it was last saved (lines 58-63).
Restart ==
    /\ rag.op # "load"
    /\ vector_store' = disk
    /\ rag' = [NoCall EXCEPT !.op = "load"]
    /\ UNCHANGED <<mode, api_name, test_types, num_cases, pc, ti, ci, test_cases,
                   disk, uuids, last, added>>

NextStore == AddCases \/ SearchSimilar \/ GetByType \/ Restart

SpecStore == InitStore /\ [][NextStore]_vars

\* The store on its own, with cases that are split into chunks.
InitChunks ==
    /\ mode = "chunks"
    /\ test_types = <<>>
    /\ num_cases = 0
    /\ InitCommon

SpecChunks == InitChunks /\ [][NextStore]_vars

\* --------------------------------- _generate_test_case called on its own

\* A generator created on an index that holds earlier cases (lines 58-63).
InitAlone ==
    /\ mode = "alone"
    /\ test_types = <<>>
    /\ num_cases = 0
    /\ api_name = "api"
    /\ pc = "for_type"
    /\ ti = 1
    /\ ci = 0
    /\ test_cases = <<>>
    /\ \E S \in SUBSET DOMAIN StoreCases :
          /\ vector_store =
                <<Placeholder>>
                \o DocumentsOfAll(SelectSeq(StoreCases, LAMBDA c : \E i \in S : SameValue(c, StoreCases[i])))
          /\ disk = vector_store
    /\ uuids = 0
    /\ last = NoRun
    /\ rag = NoCall
    /\ added = <<>>

\* _generate_test_case(api_definition, test_type) called with no
\* similar_cases: the examples come from the store.
GenerateAlone ==
    /\ last.stage = "none"
    /\ \E ty \in BuiltTypes, llm \in LLMOutcomes(mode), add \in AddOutcomes :
          \E q \in QueryOutcomes(vector_store, FilterOfType(ty, api_name), TopK) :
              \E r \in {_generate_test_case(api_name, ty, JNull, q,
                                            llm, add, vector_store, disk, uuids)} :
                  /\ last' = r
                  /\ vector_store' = r.vector_store
                  /\ disk' = r.disk
                  /\ uuids' = r.nuuid
                  /\ added' = IF r.persist = "ok"
                              THEN added \o TextsOf(<<r.test_case>>) ELSE added
    /\ UNCHANGED <<mode, api_name, test_types, num_cases, pc, ti, ci, test_cases, rag>>

SpecAlone == InitAlone /\ [][GenerateAlone]_vars

\* ------------------------------------------------------------------ claims

\* Every requested type is a key of GUIDELINES.
AllTypesKnown == \A i \in 1..Len(test_types) : test_types[i] \in GUIDELINES

\* x is an object holding id, name, param, headers and rule.
HasRequiredFields(x) ==
    IsObj(x) /\ \A i \in 1..Len(required_fields) : HasKey(x, required_fields[i])

\* C1: in generate_test_cases a failure local to one case (the model call
\* raising, an unrecoverable repair, a validation failure) aborts only that
\* case: after a failed case the loop goes on and the call still returns,
\* it is never left by that case's exception.
C1_FailedCaseDoesNotAbort ==
    (last.stage # "none" /\ ~last.ok) => pc \in {"for_case", "for_type", "returned"}

\* C2: when add_test_cases raises for a validated case, the case is still
\* returned by _generate_test_case and is the latest element of the batch
\* result: a PERSIST failure never makes a produced case a failed one.
C2_PersistFailureKeepsCase ==
    last.persist = "failed" =>
        /\ last.ok
        /\ pc # "raised_case"
        /\ Len(test_cases) >= 1
        /\ test_cases[Len(test_cases)] = last.obj

\* A call has returned although the store failed for its latest case.
C2_Witness ==
    /\ last.persist = "failed"
    /\ pc = "returned"
    /\ Len(test_cases) = Len(test_types) * num_cases

\* C3: when every requested type is known and every model response repairs
\* to an object holding id, name, param, headers and rule, the call returns
\* exactly len(test_types) * num_cases TestCase records: it returns with
\* that many records, and it is not left by the exception of a case whose
\* response repaired to such an object.
C3_ReturnsOneRecordPerUnit ==
    AllTypesKnown =>
        /\ pc = "returned" => Len(test_cases) = Len(test_types) * num_cases
        /\ (pc = "raised_case" /\ last.stage # "INVOKE_MODEL" /\ ~last.fallback)
                => ~HasRequiredFields(last.extracted)

\* C4: every TestCase record the orchestrator produced carries headers
\* exactly {"Content-Type": "application/json"}.
C4_RecordsCarryCanonicalHeaders ==
    \A i \in 1..Len(test_cases) :
        /\ HasKey(test_cases[i], K("headers"))
        /\ SameValue(Get(test_cases[i], K("headers")), CanonicalHeaders)

\* The rule and the param of the validated test case, deserialized.
FinalRule == json_loads(Get(last.test_case, K("rule")).v)
FinalParam == json_loads(Get(last.test_case, K("param")).v)

\* The entries of rule.rules of the validated test case.
FinalEntries == Get(FinalRule.val, K("rules")).v

\* r deserialized to an object holding an array under "rules".
HasRulesArray(r) ==
    r.ok /\ IsObj(r.val) /\ HasKey(r.val, K("rules")) /\ IsArr(Get(r.val, K("rules")))

\* C5: for every case that passes validation, rule is a JSON string that
\* deserializes to an object with a rules array in which every entry has a
\* matchType in {top, equal, min, max, pos, not_in}, a dataPath and a
\* columns mapping.
C5_RuleEntriesWellFormed ==
    last.ok =>
        /\ IsStr(Get(last.test_case, K("rule")))
        /\ HasRulesArray(FinalRule)
        /\ \A i \in 1..Len(FinalEntries) :
              LET e == FinalEntries[i] IN
              /\ IsObj(e)
              /\ HasKey(e, K("matchType"))
              /\ IsOneOf(Get(e, K("matchType")), MatchTypes)
              /\ HasKey(e, K("dataPath"))
              /\ HasKey(e, K("columns"))
              /\ IsObj(Get(e, K("columns")))

\* C6: for every case that passes validation, rule.rules is a non-empty
\* array.
C6_RulesNonEmpty ==
    last.ok => (HasRulesArray(FinalRule) /\ Len(FinalEntries) >= 1)

\* C7: for every case that passes validation, each rule entry whose
\* matchType is top, pos or not_in has a non-empty index.
C7_IndexedEntriesHaveIndex ==
    (last.ok /\ HasRulesArray(FinalRule)) =>
        \A i \in 1..Len(FinalEntries) :
            LET e == FinalEntries[i] IN
            (IsObj(e) /\ HasKey(e, K("matchType"))
                /\ IsOneOf(Get(e, K("matchType")), IndexedMatchTypes))
            => /\ HasKey(e, K("index"))
               /\ Get(e, K("index")).t # "null"
               /\ ~(IsStr(Get(e, K("index"))) /\ Len(Get(e, K("index")).v) = 0)

\* C8: for every case that passes validation, param is a syntactically
\* valid JSON string, whether the model supplied it as a structured value
\* or as a string.
C8_ParamIsValidJson ==
    last.ok => (IsStr(Get(last.test_case, K("param"))) /\ FinalParam.ok)

\* C9: generation of a case never fails because of its rule payload:
\* whatever rule the model supplies, no exception of the rule validation
\* ends the case.
C9_RuleNeverFailsTheCase == last.raised # "rule"

\* The value the fix-up gives a missing or invalid field.
DefaultField ==
    (K("matchType") :> W("equal")) @@ (K("index") :> W("1"))
    @@ (K("dataPath") :> W("result"))
    @@ (K("columns") :> JObj(K("result") :> JNum("0")))

\* Entry a is entry b after a fix-up that changed only missing or invalid
\* fields: an entry that is no dict became the default entry; a dict kept
\* every field it had, unchanged unless it is an invalid matchType (which
\* became "equal"), and gained only defaulted matchType, index, dataPath or
\* columns.
EntryKept(b, a) ==
    IF ~IsObj(b) THEN SameValue(a, DefaultEntry)
    ELSE /\ IsObj(a)
         /\ DOMAIN b.v \subseteq DOMAIN a.v
         /\ (DOMAIN a.v \ DOMAIN b.v) \subseteq DOMAIN DefaultField
         /\ \A k \in DOMAIN a.v \ DOMAIN b.v : SameValue(a.v[k], DefaultField[k])
         /\ \A k \in DOMAIN b.v :
               IF k = K("matchType") /\ ~IsOneOf(b.v[k], MatchTypes)
               THEN SameValue(a.v[k], W("equal"))
               ELSE SameValue(a.v[k], b.v[k])

\* C10: when the rule payload parses and has a rules array, the fix-up keeps
\* the number and the order of the entries and changes only fields that are
\* missing or invalid (matchType to "equal", index to "1", dataPath to
\* "result", columns to {"result": 0}); valid fields stay as they were and
\* no entry is dropped.
C10_FixUpKeepsEntries ==
    (last.raised \in {"none", "TestCase"} /\ last.stage \in {"VALIDATE", "DONE"}
        /\ IsObj(last.loaded) /\ HasKey(last.loaded, K("rules"))
        /\ IsArr(Get(last.loaded, K("rules"))))
    => /\ HasRulesArray(FinalRule)
       /\ DOMAIN FinalRule.val.v = DOMAIN last.loaded.v
       /\ \A k \in DOMAIN last.loaded.v \ {K("rules")} :
             SameValue(FinalRule.val.v[k], last.loaded.v[k])
       /\ Len(FinalEntries) = Len(Get(last.loaded, K("rules")).v)
       /\ \A i \in 1..Len(FinalEntries) :
             EntryKept(Get(last.loaded, K("rules")).v[i], FinalEntries[i])

\* A produced case whose rule came with three entries, one of them no
\* dict and one lacking a field, so that the fix-up changed the payload.
C10_Witness ==
    /\ last.ok
    /\ IsObj(last.loaded) /\ HasKey(last.loaded, K("rules"))
    /\ IsArr(Get(last.loaded, K("rules")))
    /\ Len(Get(last.loaded, K("rules")).v) = 3
    /\ \E i \in 1..3 : ~IsObj(Get(last.loaded, K("rules")).v[i])
    /\ \E i \in 1..3 :
          /\ IsObj(Get(last.loaded, K("rules")).v[i])
          /\ ~HasKey(Get(last.loaded, K("rules")).v[i], K("dataPath"))
          /\ HasKey(FinalEntries[i], K("dataPath"))
    /\ Len(FinalEntries) = 3

\* The latest case got an answer from the model (llm.invoke returned).
Answered == last.stage # "none" /\ ~last.llm.raises

\* C11: validation requires only name from the model: a repaired candidate
\* that has a name (and a rule) but lacks id, param or headers is accepted,
\* not rejected as missing a required field.
C11_OnlyNameRequired ==
    (/\ Answered
     /\ last.raised # "_extract_json_from_text"
     /\ IsObj(last.extracted)
     /\ HasKey(last.extracted, K("name"))
     /\ HasKey(last.extracted, K("rule")))
    => last.raised # "_sanitize_test_case"

\* The answer of the latest case as repaired by _fix_json_string and parsed.
RepairedParse == json_loads(_fix_json_string(last.llm.content))

\* C12: for every text that still fails to parse after the repair steps,
\* _extract_json_from_text does not raise and returns the fallback object:
\* name and id as found in the raw text, else the default name and a fresh
\* id, with param "{}", the canonical headers and the default rule.
C12_FallbackNeverRaises ==
    (Answered /\ ~RepairedParse.ok) =>
        /\ last.raised # "_extract_json_from_text"
        /\ last.fallback
        /\ IsObj(last.extracted)
        /\ DOMAIN last.extracted.v = {required_fields[i] : i \in 1..Len(required_fields)}
        /\ Get(last.extracted, K("name")) =
              JStr(IF FindField(last.llm.content, "name").found
                   THEN FindField(last.llm.content, "name").val
                   ELSE <<"Generated", " ", "Test", " ", "Case">>)
        /\ Get(last.extracted, K("id")) =
              JStr(IF FindField(last.llm.content, "id").found
                   THEN FindField(last.llm.content, "id").val
                   ELSE <<UUIDS[last.nuuid]>>)
        /\ Get(last.extracted, K("param")) = JStr(<<"{", "}">>)
        /\ SameValue(Get(last.extracted, K("headers")), CanonicalHeaders)
        /\ IsStr(Get(last.extracted, K("rule")))
        /\ json_loads(Get(last.extracted, K("rule")).v).ok
        /\ SameValue(json_loads(Get(last.extracted, K("rule")).v).val, DefaultRule)

\* The answer of the latest case parsed as it is, without repair.
DirectParse == json_loads(last.llm.content)

\* The answer is an object whose only key is "TestCase" or "testCase" and
\* whose value under that key is an object.
IsWrapped(x) ==
    /\ IsObj(x)
    /\ \E k \in {K("TestCase"), K("testCase")} : DOMAIN x.v = {k} /\ IsObj(x.v[k])

Inner(x) == x.v[CHOOSE k \in DOMAIN x.v : TRUE]

\* C13: when the parsed answer is an object wrapped in a container keyed
\* "TestCase" or "testCase", the repair step of the pipeline returns the
\* inner object, and the wrapped case validates like the unwrapped one.
C13_WrapperIsUnwrapped ==
    (Answered /\ DirectParse.ok /\ IsWrapped(DirectParse.val)) =>
        /\ last.raised # "_extract_json_from_text"
        /\ SameValue(last.extracted, Inner(DirectParse.val))
        /\ last.raised # "_sanitize_test_case"

\* C14: repair is the identity on valid input: for every answer that is
\* already a valid JSON object, _extract_json_from_text returns data equal
\* to parsing the text directly.
C14_RepairKeepsValidJson ==
    (Answered /\ DirectParse.ok /\ IsObj(DirectParse.val)) =>
        /\ last.raised # "_extract_json_from_text"
        /\ ~last.fallback
        /\ SameValue(last.extracted, DirectParse.val)

\* The latest call of the store was a search.
IsSearch == rag.op \in {"search_similar_cases", "get_test_cases_by_type"}

\* The metadata of doc names this api_name and this type.
Agrees(doc, a, ty) ==
    /\ SameValue(MetadataGet(doc, "api_name"), W(a))
    /\ SameValue(MetadataGet(doc, "type"), W(ty))

\* C15: after any sequence of add_test_cases calls, a search with filter
\* api_name=A and type=T returns only cases whose stored metadata has
\* api_name=A and type=T; a case with another api_name or type, and the
\* placeholder entry, are never returned.
C15_FilterCorrectness ==
    (IsSearch /\ ~rag.raises /\ DOMAIN rag.filter = {"api_name", "type"}) =>
        /\ \A i \in 1..Len(rag.docs) :
              /\ Agrees(rag.docs[i], rag.filter["api_name"], rag.filter["type"])
              /\ rag.docs[i].page_content # Placeholder.page_content
        /\ \A i \in 1..Len(rag.cases) :
              /\ IsObj(rag.cases[i])
              /\ SameValue(GetOrNone(rag.cases[i], K("api_name")), W(rag.filter["api_name"]))
              /\ SameValue(GetOrNone(rag.cases[i], K("type")), W(rag.filter["type"]))
              /\ \E j \in 1..Len(vector_store) :
                    /\ Agrees(vector_store[j], rag.filter["api_name"], rag.filter["type"])
                    /\ json_loads(vector_store[j].page_content).ok
                    /\ SameValue(json_loads(vector_store[j].page_content).val, rag.cases[i])

\* A search with both filter keys returned a case from an index that also
\* holds a case of another type or another API.
C15_Witness ==
    /\ IsSearch /\ ~rag.raises /\ DOMAIN rag.filter = {"api_name", "type"}
    /\ Len(rag.cases) >= 1
    /\ \E j \in 2..Len(vector_store) :
          ~Agrees(vector_store[j], rag.filter["api_name"], rag.filter["type"])

\* The index s holds a document with this text.
Holds(s, text) == \E j \in 1..Len(s) : s[j].page_content = text

\* C16: whenever add_test_cases has returned, the saved index holds every
\* chunk of the in-memory index; hence after the process stops between two
\* cases and a new store is loaded from the same path, every case added
\* before the stop is still indexed.
C16_SavedAfterEveryAdd ==
    /\ (rag.op = "add_test_cases" /\ ~rag.raises) =>
          /\ Len(disk) = Len(vector_store)
          /\ \A j \in 1..Len(vector_store) :
                /\ disk[j].page_content = vector_store[j].page_content
                /\ DOMAIN disk[j].metadata = DOMAIN vector_store[j].metadata
                /\ \A key \in DOMAIN disk[j].metadata :
                      SameValue(disk[j].metadata[key], vector_store[j].metadata[key])
    /\ \A i \in 1..Len(added) : Holds(disk, added[i])
    /\ rag.op = "load" => \A i \in 1..Len(added) : Holds(vector_store, added[i])

\* Two calls of add_test_cases returned, and the
\* store was loaded again.
C16_Witness ==
    /\ rag.op = "load"
    /\ Len(added) = 2
    /\ Len(vector_store) = 3

\* C17: both example-selection modes return an empty list and do not raise
\* when the query of the store fails.
C17_SelectionNeverRaises ==
    (IsSearch /\ rag.fails) => (~rag.raises /\ Len(rag.cases) = 0)

\* C18: every unit of work of generate_test_cases goes through
\* SELECT_EXAMPLES, BUILD_PROMPT, INVOKE_MODEL, REPAIR, VALIDATE, PERSIST and
\* DONE in that order, none skipped on the success path: the store is
\* queried for examples before the case's prompt is built.
C18_StepsInOrder ==
    (last.stage # "none" /\ last.ok) =>
        /\ last.steps = <<"SELECT_EXAMPLES", "BUILD_PROMPT", "INVOKE_MODEL", "REPAIR",
                          "VALIDATE", "PERSIST", "DONE">>
        /\ last.queried

\* The cases of the batch as they were when the latest case was generated.
CasesBefore ==
    IF last.ok THEN SubSeq(test_cases, 1, Len(test_cases) - 1) ELSE test_cases

\* C19: within one generate_test_cases call, the similar-cases context of a
\* case holds every case produced earlier in the call, in generation order,
\* and nothing else; the first case gets none, and the context grows by one
\* with each successful case.
C19_ContextIsEarlierCases ==
    last.stage # "none" =>
        /\ Len(last.similar_cases) = Len(CasesBefore)
        /\ \A i \in 1..Len(CasesBefore) : SameValue(last.similar_cases[i], CasesBefore[i])
        /\ last.prompt.similar_cases =
              (IF Len(CasesBefore) = 0 THEN <<"[", "]">>
               ELSE json_dumps_indent(JArr(CasesBefore), 0))

\* The third case of a call was generated with the two earlier ones as
\* its context.
C19_Witness ==
    /\ last.ok
    /\ Len(test_cases) = 3
    /\ Len(last.similar_cases) = 2

\* C20: no two TestCase records returned by one generate_test_cases call
\* share an id, even when the model returns the same id in two responses.
C20_IdsUnique ==
    pc = "returned" =>
        \A i, j \in 1..Len(test_cases) :
            i # j => Get(test_cases[i], K("id")).v # Get(test_cases[j], K("id")).v

\* Every document of the index s is a document of the index t, at the same
\* position, with the same text and the same metadata.
KeepsDocuments(s, t) ==
    /\ Len(s) <= Len(t)
    /\ \A j \in 1..Len(s) :
          /\ t[j].page_content = s[j].page_content
          /\ DOMAIN t[j].metadata = DOMAIN s[j].metadata
          /\ \A key \in DOMAIN s[j].metadata :
                SameValue(t[j].metadata[key], s[j].metadata[key])

\* C21: the store is append-only: over any sequence of add_test_cases and
\* search calls every chunk already indexed stays indexed with unchanged
\* text and metadata, and a search leaves the index unchanged.
C21_AppendOnly ==
    [][ /\ rag'.op \in {"add_test_cases", "search_similar_cases", "get_test_cases_by_type"} =>
              KeepsDocuments(vector_store, vector_store')
        /\ rag'.op \in {"search_similar_cases", "get_test_cases_by_type"} =>
              /\ Len(vector_store') = Len(vector_store)
              /\ KeepsDocuments(disk, disk') /\ Len(disk') = Len(disk) ]_vars

\* A second add_test_cases call returned, on an index that held a case.
C21_Witness ==
    /\ rag.op = "add_test_cases" /\ ~rag.raises
    /\ Len(added) = 2
    /\ Len(vector_store) = 3

\* The batch stopped at the type check of lines 321-323.
StoppedAtType == pc = "raised_unknown_type"

\* What holds when the batch stopped at an unknown type: the type at ti is
\* no key of GUIDELINES, every type before it is one and got its num_cases
\* cases, and the model was not invoked for the unknown type.
StoppedBeforeTheModel ==
    /\ test_types[ti] \notin GUIDELINES
    /\ \A j \in 1..(ti - 1) : test_types[j] \in GUIDELINES
    /\ Len(test_cases) = (ti - 1) * num_cases
    /\ last.prompt.test_type # test_types[ti]

C23_OutsideTextDiscarded ==
    Answered =>
        \A p \in DOMAIN Prefixes, j \in DOMAIN SpanTexts, s \in DOMAIN Suffixes :
            last.llm.content = Surrounded(p, j, s) =>
                With(_extract_json_from_text(SpanTexts[j], UUIDS[1]), LAMBDA alone :
                    /\ ~alone.raises
                    /\ last.raised # "_extract_json_from_text"
                    /\ last.fallback = alone.fallback
                    /\ SameValue(last.extracted, alone.val))

\* The documents of a search result whose text json.loads accepts.
Deserialized == SelectSeq(rag.docs, LAMBDA d : json_loads(d.page_content).ok)

\* C22: a search with limit k returns at most k cases, each the
\* deserialization of one stored chunk; a chunk whose text does not
\* deserialize as JSON (a partial chunk, the placeholder) is left out of the
\* result and never makes the search raise.
C22_UndeserializableSkipped ==
    (IsSearch /\ ~rag.fails) =>
        /\ ~rag.raises
        /\ Len(rag.docs) <= rag.k
        /\ \A i \in 1..Len(rag.docs) : Holds(vector_store, rag.docs[i].page_content)
        /\ Len(rag.cases) = Len(Deserialized)
        /\ \A i \in 1..Len(rag.cases) :
              SameValue(rag.cases[i], json_loads(Deserialized[i].page_content).val)

\* The cases of the pool whose serialized text exceeds the chunk size.
Oversize ==
    {i \in DOMAIN ChunkCases : TextLen(json_dumps_indent(ChunkCases[i], 0)) > chunk_size}

\* The document is a chunk of case i of the pool.
ChunkOf(doc, i) ==
    SameValue(MetadataGet(doc, "test_case_id"), Get(ChunkCases[i], K("id")))

\* C25 as stated: a case whose serialized text exceeds the chunk size is
\* never returned by a later search, because none of its chunks
\* deserializes as JSON.
C25_NoChunkDeserializes ==
    \A i \in Oversize :
        /\ IsSearch => \A j \in 1..Len(rag.cases) : ~SameValue(rag.cases[j], ChunkCases[i])
        /\ \A j \in 1..Len(vector_store) :
              ChunkOf(vector_store[j], i) => ~json_loads(vector_store[j].page_content).ok

\* C25, amended: a case whose serialized text exceeds the chunk size is
\* never returned by a later search, for each of its chunks holds a part
\* of its text only; a chunk that is valid JSON on its own is returned as
\* that fragment, which is not the case.
C25_SplitCaseNeverReturned ==
    \A i \in Oversize :
        /\ IsSearch => \A j \in 1..Len(rag.cases) : ~SameValue(rag.cases[j], ChunkCases[i])
        /\ \A j \in 1..Len(vector_store) :
              ChunkOf(vector_store[j], i) =>
                  /\ vector_store[j].page_content # json_dumps_indent(ChunkCases[i], 0)
                  /\ json_loads(vector_store[j].page_content).ok =>
                        ~SameValue(json_loads(vector_store[j].page_content).val,
                                   ChunkCases[i])

\* A search over an index that holds the chunks of a split case returned
\* one of them, a string, as a case.
C25_Witness ==
    /\ IsSearch /\ ~rag.raises
    /\ \E j \in 1..Len(rag.docs) : \E i \in Oversize : ChunkOf(rag.docs[j], i)
    /\ \E j \in 1..Len(rag.cases) : IsStr(rag.cases[j])

====
